---------------------------- MODULE Spec2Model ----------------------------
(***************************************************************************)
(* State-machine model of the RSS content pipeline:                        *)
(*   - RSSFetcher   (src/src/rss_fetcher/fetcher.py): dedup ledger, feed   *)
(*                   ingestion, recency filter, purge;                     *)
(*   - AIProcessor  (src/src/ai_processor/processor.py): the three-call    *)
(*                   classifier protocol and the batch loop;               *)
(*   - PageGenerator(src/src/page_generator/generator.py): snapshot write  *)
(*                   and old-data cleanup;                                 *)
(*   - run_job      (src/main.py): the sequencing of the above.            *)
(*                                                                         *)
(* Time is counted in whole hours.  An aware datetime is an instant (hours *)
(* since an arbitrary epoch); a naive datetime is its wall-clock reading.  *)
(***************************************************************************)
EXTENDS Integers, Sequences, FiniteSets, TLC

VARIABLES
    now,          \* the clock: datetime.now(SHANGHAI_TZ), as an instant
    ticks,        \* how many times the clock has advanced
    feeds,        \* source name -> the entries feedparser.parse returns
    broken,       \* the sources whose fetch/parse raises
    pc,           \* position of the ingestor process
    idx,          \* fetch_all: index of the next source to fetch
    seen,         \* RSSFetcher.seen_articles (in memory): url -> timestamp
    disk,         \* seen_articles.json: [ok, map]; ok = FALSE is a corrupt file
    articles,     \* fetch_all: all_articles accumulated so far
    returned,     \* the list the last completed fetch_all returned
    everEmitted,  \* history: the urls fetch_source has emitted so far
    saveFailed,   \* history: some ledger save has failed
    crashed,      \* history: some run was interrupted
    lostUrls,     \* history: urls emitted by the last interrupted run
    seenAtBegin,  \* history: DOMAIN seen when the current run began
    diskAtBegin,  \* history: disk when the current run began
    armed,        \* history: is the next run "the second of two in succession"
    ranBefore,    \* runs in series: the last cleanup closed a run and saved
    batch,        \* process_articles: the articles argument
    cap,          \* process_articles: the max_articles argument
    todo,         \* process_articles: articles[:max_articles]
    pi,           \* process_articles: index of the article in work
    cur,          \* process_article: the result dict being filled
    processed,    \* process_articles: the processed list
    ppc,          \* position of the classifier
    calls,        \* _call_llm for the current article: did each call return
    lastReply,    \* what the last call of _call_llm handed back
    snapshots,    \* output/data/<date>.json: day -> snapshot file
    otherJson,    \* output/data holds a *.json file not named by a date
    pages,        \* output/daily/<date>/index.html: day -> dates it links
    indexDay,     \* output/index.html: the day it redirects to, if written
    genStatus,    \* how the last call of generate ended
    genWrite,     \* what happened to the file writes of that call
    genArts,      \* the article list that call was given
    genPrev,      \* the snapshot file of that call's date as the call found it
    apiKey,       \* AI_CONFIG['api_key'] is set
    job,          \* position of run_job
    jobResult,    \* what the last run_job returned
    runs          \* how many times run_job has been started

fetchVars == <<now, ticks, feeds, broken, pc, idx, seen, disk, articles,
               returned, everEmitted, saveFailed, crashed, lostUrls,
               seenAtBegin, diskAtBegin, armed, ranBefore>>

procVars == <<batch, cap, todo, pi, cur, processed, ppc, calls, lastReply>>

genVars == <<snapshots, otherJson, pages, indexDay, genStatus, genWrite,
            genArts, genPrev>>

jobVars == <<apiKey, job, jobResult, runs>>

\* What the ingestor's operations leave alone.
nonFetchVars == <<procVars, genVars, jobVars>>

\* What the classifier's operations leave alone.
nonProcVars == <<fetchVars, genVars, jobVars>>

vars == <<fetchVars, procVars, genVars, jobVars>>

-----------------------------------------------------------------------------
(* Bounds of the model *)

MaxEntries == 2      \* feed entries over all sources
MaxTicks == 2        \* clock advances in one behaviour
MaxBatch == 2        \* articles handed to process_articles
MaxRuns == 2         \* runs of run_job in one behaviour

(* Program constants *)

RecencyHours == 24       \* timedelta(hours=24)
RetentionHours == 168    \* DATA_RETENTION_DAYS = 7 days
TzOffsetHours == 8       \* Asia/Shanghai is UTC+8, no DST
SummaryCap == 50         \* len(result) > 50
FallbackLen == 14        \* length of the fallback summary string
KeepDataHours == 168     \* _cleanup_old_data(days=7)
WindowDays == 7          \* range(7): the days a daily page can link

-----------------------------------------------------------------------------
(* Universe of inputs *)

URLs == {"u1", "u2"}
NoLink == ""                       \* entry.get('link', '') of a link-less entry
SourceOrder == <<"s1", "s2">>      \* self.sources.items() iterates in this order
Sources == {SourceOrder[i] : i \in 1..Len(SourceOrder)}

\* published_parsed of an entry: <<>> is None, <<w>> a naive wall-clock reading w.
\* With now = 0 the reading -16, once localized, lies exactly on the edge of the
\* 24 h window; one clock advance later it is outside.
PubWall == {-16}
PubChoices == {<<>>} \cup {<<w>> : w \in PubWall}

\* A link-less entry is skipped before its date is read: one such entry suffices.
Entries ==
    [link : URLs, published : PubChoices] \cup {[link |-> NoLink, published |-> <<>>]}

TickSteps == {1, RetentionHours}

EmptyLedger == [u \in {} |-> 0]

RECURSIVE SeqsUpTo(_, _)
SeqsUpTo(S, n) ==
    IF n = 0 THEN {<<>>}
    ELSE LET shorter == SeqsUpTo(S, n - 1)
         IN  shorter \cup {Append(q, x) : q \in {r \in shorter : Len(r) = n - 1}, x \in S}

FeedChoices ==
    {f \in [Sources -> SeqsUpTo(Entries, MaxEntries)] :
        Len(f["s1"]) + Len(f["s2"]) <= MaxEntries}

Min(a, b) == IF a <= b THEN a ELSE b

Urls(arts) == {arts[i].url : i \in 1..Len(arts)}

-----------------------------------------------------------------------------
(* Dedup ledger: RSSFetcher *)

\* _load_seen_articles: the file's mapping, or {} when it is missing/corrupt.
LoadSeen(d) == IF d.ok THEN d.map ELSE EmptyLedger

\* What _save_seen_articles can leave on disk: the full mapping (success), the
\* old file (open() raised), or a truncated file (json.dump raised mid-write).
SaveOutcomes == {"ok", "unchanged", "truncated"}

SaveSeen(d, ledger, outcome) ==
    CASE outcome = "ok" -> [ok |-> TRUE, map |-> ledger]
      [] outcome = "unchanged" -> d
      [] outcome = "truncated" -> [ok |-> FALSE, map |-> EmptyLedger]

\* Mutant: the emitted url is not recorded.
RecordUrl_Forget(ledger, url, t) == ledger

\* self.seen_articles[article_url] = datetime.now(SHANGHAI_TZ).isoformat()
RecordUrl(ledger, url, t) ==
    [u \in (DOMAIN ledger) \cup {url} |-> IF u = url THEN t ELSE ledger[u]]

\* Mutant: the purge keeps an entry dated exactly at the cutoff.
PurgeLedger_Inclusive(ledger, t, retention) ==
    LET cutoff == t - retention
    IN  [u \in {v \in DOMAIN ledger : ledger[v] >= cutoff} |-> ledger[u]]

\* _cleanup_old_seen: keep the entries with date > cutoff.  Timestamps are
\* isoformat strings of one fixed zone, so string order is instant order.
PurgeLedger(ledger, t, retention) ==
    LET cutoff == t - retention
    IN  [u \in {v \in DOMAIN ledger : ledger[v] > cutoff} |-> ledger[u]]

-----------------------------------------------------------------------------
(* Feed ingestor: RSSFetcher.fetch_source *)

\* SHANGHAI_TZ.localize(naive): the instant at which Shanghai clocks read w.
Localize(w) == w - TzOffsetHours

\* pub_date of an entry: now when published_parsed is absent, else the naive
\* datetime(*published[:6]) localized to Shanghai.
PubDate(e, t) == IF e.published = <<>> THEN t ELSE Localize(e.published[1])

\* The dict fetch_source appends: url, title, source, published, content.  The
\* title and body text of an entry are not varied.
Article(link, name, pubDate) ==
    [url |-> link, title |-> "title", source |-> name, published |-> pubDate,
     content |-> "text"]

\* Mutant: the window is one hour too wide.
TooOld_Lax(pubDate, t) == pubDate < t - RecencyHours - 1

\* pub_date < datetime.now(SHANGHAI_TZ) - timedelta(hours=24)
TooOld(pubDate, t) == pubDate < t - RecencyHours

\* Mutant: the loop consults the ledger as it was when fetch_source was entered
\* (here: never), so a link met twice is emitted twice.
RECURSIVE FetchEntries_NoSeenCheck(_, _, _, _, _, _)
FetchEntries_NoSeenCheck(name, entries, i, ledger, arts, t) ==
    IF i > Len(entries) THEN [seen |-> ledger, arts |-> arts]
    ELSE LET e == entries[i]
             pubDate == PubDate(e, t)
         IN  IF e.link = NoLink \/ TooOld(pubDate, t)
             THEN FetchEntries_NoSeenCheck(name, entries, i + 1, ledger, arts, t)
             ELSE FetchEntries_NoSeenCheck(name, entries, i + 1,
                                           RecordUrl(ledger, e.link, t),
                                           Append(arts, Article(e.link, name, pubDate)),
                                           t)

\* The entry loop of fetch_source, from entry i on, threading the ledger and
\* the article list through the iterations.
RECURSIVE FetchEntries(_, _, _, _, _, _)
FetchEntries(name, entries, i, ledger, arts, t) ==
    IF i > Len(entries) THEN [seen |-> ledger, arts |-> arts]
    ELSE LET e == entries[i]
             pubDate == PubDate(e, t)
         IN  IF e.link = NoLink THEN FetchEntries(name, entries, i + 1, ledger, arts, t)
             ELSE IF e.link \in DOMAIN ledger
                  THEN FetchEntries(name, entries, i + 1, ledger, arts, t)
             ELSE IF TooOld(pubDate, t)
                  THEN FetchEntries(name, entries, i + 1, ledger, arts, t)
             ELSE FetchEntries(name, entries, i + 1,
                               RecordUrl(ledger, e.link, t),
                               Append(arts, Article(e.link, name, pubDate)),
                               t)

\* fetch_source(name, url): a raising fetch is caught and yields no article.
\* Mutant: a visit stamps every link of the ledger with the time of the visit.
FetchSourceResult_Restamp(name, ledger, t) ==
    LET r == IF name \in broken THEN [seen |-> ledger, arts |-> <<>>]
             ELSE FetchEntries(name, feeds[name], 1, ledger, <<>>, t)
    IN  [seen |-> [u \in DOMAIN r.seen |-> t], arts |-> r.arts]

FetchSourceResult(name, ledger, t) ==
    IF name \in broken THEN [seen |-> ledger, arts |-> <<>>]
    ELSE FetchEntries(name, feeds[name], 1, ledger, <<>>, t)

\* Mutant: the list is returned in the order it was collected.
SortDesc_Unsorted(arts) == arts

\* list.sort(key=published, reverse=True): stable, newest first.
RECURSIVE InsertDesc(_, _)
InsertDesc(sorted, a) ==
    IF sorted = <<>> THEN <<a>>
    ELSE IF Head(sorted).published >= a.published
         THEN <<Head(sorted)>> \o InsertDesc(Tail(sorted), a)
         ELSE <<a>> \o sorted

RECURSIVE SortDesc(_)
SortDesc(arts) ==
    IF arts = <<>> THEN <<>>
    ELSE InsertDesc(SortDesc(SubSeq(arts, 1, Len(arts) - 1)), arts[Len(arts)])

-----------------------------------------------------------------------------
(* Python dicts are functions from keys to values *)

EmptyDict == [k \in {} |-> ""]

\* d[k] = v
Put(d, k, v) == [x \in (DOMAIN d) \cup {k} |-> IF x = k THEN v ELSE d[x]]

\* d.update(e)
Update(d, e) == [x \in (DOMAIN d) \cup (DOMAIN e) |-> IF x \in DOMAIN e THEN e[x] ELSE d[x]]

\* Mutant: the list is not cut.
PySlice_All(s, m) == s

\* s[:m] of a list: a negative m counts from the end.
PySlice(s, m) ==
    IF m >= 0 THEN SubSeq(s, 1, Min(m, Len(s)))
    ELSE SubSeq(s, 1, IF Len(s) + m > 0 THEN Len(s) + m ELSE 0)

-----------------------------------------------------------------------------
(* Classifier: AIProcessor *)

DefaultMaxArticles == 50     \* max_articles: int = 50

\* What _call_llm hands back.  [ok |-> FALSE] is None: the call raised.
\* A summary reply is n characters of text, possibly wrapped in quotes.
CallFailed == [ok |-> FALSE]
NoReply == [called |-> FALSE]
SummaryLens == {0, 1, SummaryCap, SummaryCap + 1}
SummaryReplies ==
    {CallFailed} \cup [ok : {TRUE}, quoted : BOOLEAN, n : SummaryLens]

\* A decision reply: which form of the verdict line it holds, and whether it
\* holds a rationale line with text.  The verdict forms, with U+FF1A the
\* full-width colon: yes_fullwidth_colon = verdict U+FF1A yes, yes_colon_space
\* = verdict ": " yes (the two substrings is_featured looks for),
\* yes_colon_nospace = verdict ":" yes, no_fullwidth_colon = verdict U+FF1A no,
\* none = no verdict line.  "AI_FAILED" is the failure rationale string.
YesMarkers == {"yes_fullwidth_colon", "yes_colon_space"}
Markers == YesMarkers \cup {"yes_colon_nospace", "no_fullwidth_colon", "none"}
DecisionReplies ==
    {CallFailed} \cup [ok : {TRUE}, marker : Markers, reason : BOOLEAN]

\* A deep-dive reply is a sequence of chunks: a label (bracketed "B", simple
\* "S" with a colon, or none "-") followed by body text or by nothing.
SectionKeys == <<"core_content", "what_you_learn", "action_advice">>
BLabel(k) == <<"B1", "B2", "B3">>[k]
SLabel(k) == <<"S1", "S2", "S3">>[k]
Labels == {"B1", "B2", "B3", "S1", "S2", "S3", "-"}
Chunks == {c \in [label : Labels, body : BOOLEAN] : c.label # "-" \/ c.body}

\* The replies tried: the three sections in the order the prompt asks for, each
\* absent, bracketed or simple, with or without body text; a reply with no
\* section at all is plain text.
SectionForms == {"absent", "B", "S"}
SectionChunk(k, form, body) ==
    IF form = "absent" THEN <<>>
    ELSE <<[label |-> IF form = "B" THEN BLabel(k) ELSE SLabel(k), body |-> body]>>
ChunksOf(forms, bodies) ==
    LET labelled == SectionChunk(1, forms[1], bodies[1])
                    \o SectionChunk(2, forms[2], bodies[2])
                    \o SectionChunk(3, forms[3], bodies[3])
    IN  IF labelled = <<>> THEN <<[label |-> "-", body |-> TRUE]>> ELSE labelled
DeepReplies ==
    {CallFailed} \cup
    {[ok |-> TRUE, chunks |-> ChunksOf(forms, bodies)] :
        forms \in [1..3 -> SectionForms], bodies \in [1..3 -> BOOLEAN]}

FallbackSummary == [kind |-> "fallback", len |-> FallbackLen]

\* Mutant: a long summary is not cut.
GenerateSummary_NoCut(reply) ==
    IF ~reply.ok THEN FallbackSummary
    ELSE IF reply.n = 0 THEN FallbackSummary
    ELSE [kind |-> "text", len |-> reply.n]

\* generate_summary, after the call: strip quotes, cut at 50 and add "...",
\* fall back when the call failed or nothing is left.
GenerateSummary(reply) ==
    IF ~reply.ok THEN FallbackSummary
    ELSE IF reply.n = 0 THEN FallbackSummary
    ELSE IF reply.n > SummaryCap
         THEN [kind |-> "text", len |-> SummaryCap + 3]
         ELSE [kind |-> "text", len |-> reply.n]

\* Mutant: only the full-width form of the marker counts.
IsFeatured_OneMarker(reply) ==
    IF ~reply.ok THEN [featured |-> FALSE, reason |-> "AI_FAILED"]
    ELSE [featured |-> reply.marker = "yes_fullwidth_colon",
          reason |-> IF reply.reason THEN "reason" ELSE ""]

\* is_featured, after the call.
IsFeatured(reply) ==
    IF ~reply.ok THEN [featured |-> FALSE, reason |-> "AI_FAILED"]
    ELSE [featured |-> reply.marker \in YesMarkers,
          reason |-> IF reply.reason THEN "reason" ELSE ""]

FirstIndex(chunks, label) ==
    LET hits == {i \in 1..Len(chunks) : chunks[i].label = label}
    IN  IF hits = {} THEN 0 ELSE CHOOSE i \in hits : \A j \in hits : i <= j

\* re.search of a section pattern: the group (.+?) needs one character after
\* the label, which is the chunk's own body or, failing that, whatever follows.
LabelMatches(chunks, label) ==
    LET i == FirstIndex(chunks, label)
    IN  i > 0 /\ (chunks[i].body \/ i < Len(chunks))

\* The value generate_featured_content stores for section k: "" when neither
\* the bracketed nor the simple pattern matches.
ExtractSection(chunks, k) ==
    IF LabelMatches(chunks, BLabel(k)) THEN "text"
    ELSE IF LabelMatches(chunks, SLabel(k)) THEN "text"
    ELSE ""

\* generate_featured_content, after the call: None, or the three-key dict.
GenerateFeaturedContent(reply) ==
    IF ~reply.ok THEN [none |-> TRUE, dict |-> EmptyDict]
    ELSE [none |-> FALSE,
          dict |-> [key \in {SectionKeys[k] : k \in 1..3} |->
                      ExtractSection(reply.chunks,
                                     CHOOSE k \in 1..3 : SectionKeys[k] = key)]]

\* `if featured:` -- None and the empty dict are falsy.
Truthy(opt) == ~opt.none /\ DOMAIN opt.dict # {}

\* article.get('content', '')[:3000] raises TypeError when content is None.
Raises(article) == article.content = "None"

\* Mutant: the except branch leaves the failed article featured.
FailedArticle_Featured(article) ==
    Put(Put(article, "summary", FallbackSummary), "is_featured", TRUE)

\* The except branch of process_articles.
FailedArticle(article) ==
    Put(Put(article, "summary", FallbackSummary), "is_featured", FALSE)

\* Mutant: the except branch drops the article.
AppendFailed_Drop(list, article) == list

AppendFailed(list, article) == Append(list, FailedArticle(article))

\* Mutant: a failed deep dive leaves the article featured.
AfterDeepDive_StayFeatured(result, featured) ==
    IF Truthy(featured) THEN Update(result, featured.dict) ELSE result

\* process_article after the deep-dive call.
AfterDeepDive(result, featured) ==
    IF Truthy(featured) THEN Update(result, featured.dict)
    ELSE Put(result, "is_featured", FALSE)

\* The inputs of the batch runs.
GoodArticle == [url |-> "u1", title |-> "title", source |-> "s1", published |-> 0,
                content |-> "text"]
BadArticle == [url |-> "u2", title |-> "title", source |-> "s1", published |-> 0,
               content |-> "None"]
BatchChoices == SeqsUpTo({GoodArticle, BadArticle}, MaxBatch)
CapChoices == (-1)..MaxBatch
BatchSummaryReplies == {CallFailed, [ok |-> TRUE, quoted |-> FALSE, n |-> 1]}
BatchDecisionReplies ==
    {CallFailed} \cup
    {[ok |-> TRUE, marker |-> m, reason |-> TRUE] : m \in {"yes_fullwidth_colon", "no_fullwidth_colon"}}

-----------------------------------------------------------------------------
(* Snapshot builder: PageGenerator *)

NoFiles == [d \in {} |-> 0]

\* _get_date_str: the Shanghai calendar day of an instant, as a day number.
Day(t) == (t + TzOffsetHours) \div 24

\* sum(1 for a in articles if a.get('is_featured'))
\* Mutant: the tally counts every article.
FeaturedCount_All(arts) == Len(arts)

FeaturedCount(arts) ==
    Cardinality({i \in 1..Len(arts) :
                    "is_featured" \in DOMAIN arts[i] /\ arts[i].is_featured})

\* The data dict generate builds.
SnapshotData(arts, t) ==
    [ok |-> TRUE, date |-> Day(t), timestamp |-> t, articles |-> arts,
     featured_count |-> FeaturedCount(arts)]

\* A file cut short by a write that raised.
PartialFile == [ok |-> FALSE]

\* What the writes of generate can do: all succeed; open() of the snapshot
\* raises; json.dump raises mid-write; the snapshot is written and the write of
\* the daily page raises.
GenOutcomes == {"ok", "unchanged", "truncated", "html"}

\* What a path holds: no file, or one file.
FileAt(files, day) == IF day \in DOMAIN files THEN <<files[day]>> ELSE <<>>

\* Mutant: a snapshot that exists is kept.
SaveData_KeepFirst(files, day, data, outcome) ==
    IF day \in DOMAIN files THEN files ELSE Put(files, day, data)

\* _save_data
\* Mutant: an empty article list does not replace a snapshot already written.
SaveData_SkipEmpty(files, day, data, outcome) ==
    CASE outcome = "unchanged" -> files
      [] outcome = "truncated" -> Put(files, day, PartialFile)
      [] OTHER -> IF data.articles = <<>> /\ day \in DOMAIN files
                  THEN files
                  ELSE Put(files, day, data)

SaveData(files, day, data, outcome) ==
    CASE outcome = "unchanged" -> files
      [] outcome = "truncated" -> Put(files, day, PartialFile)
      [] OTHER -> Put(files, day, data)

\* _render_daily_page: available_dates, oldest first.
RECURSIVE DatesFrom(_, _, _)
DatesFrom(files, today, i) ==
    IF i >= WindowDays THEN <<>>
    ELSE DatesFrom(files, today, i + 1)
         \o (IF (today - i) \in DOMAIN files THEN <<today - i>> ELSE <<>>)

\* Mutant: the window reaches one day further back.
AvailableDates_EightDays(files, t) == DatesFrom(files, Day(t) - 1, 0) \o <<Day(t)>>

AvailableDates(files, t) == DatesFrom(files, Day(t), 0)

\* a < b on datetimes: comparing a naive with an aware one raises TypeError.
DtLess(a, b) ==
    IF a.aware # b.aware THEN "TypeError"
    ELSE IF a.at < b.at THEN "true" ELSE "false"

\* _cleanup_old_data, one date-named file: file_date < cutoff, with file_date
\* from strptime (naive) and cutoff from datetime.now(SHANGHAI_TZ) (aware).
CleanupVerdict(day, t) ==
    DtLess([aware |-> FALSE, at |-> day * 24],
           [aware |-> TRUE, at |-> t - KeepDataHours])

\* _cleanup_old_data: a file not named by a date is skipped (ValueError); a
\* TypeError is not caught and ends the loop.  Every date-named file raises it,
\* so no file is unlinked before the exception whatever the glob order.
CleanupOldData(files, t) ==
    LET raising == {d \in DOMAIN files : CleanupVerdict(d, t) = "TypeError"}
        old == {d \in DOMAIN files : CleanupVerdict(d, t) = "true"}
    IN  IF raising # {} THEN [raised |-> TRUE, files |-> files]
        ELSE [raised |-> FALSE,
              files |-> [d \in (DOMAIN files) \ old |-> files[d]]]

\* generate(articles): the files it leaves and whether it raised.
GenerateResult(arts, t, outcome) ==
    LET saved == SaveData(snapshots, Day(t), SnapshotData(arts, t), outcome)
        cleaned == CleanupOldData(saved, t)
    IN  IF outcome \in {"unchanged", "truncated", "html"}
        THEN [raised |-> TRUE, files |-> saved, pages |-> pages, index |-> indexDay]
        ELSE [raised |-> cleaned.raised,
              files |-> cleaned.files,
              pages |-> Put(pages, Day(t), AvailableDates(saved, t)),
              index |-> {Day(t)}]

-----------------------------------------------------------------------------
(* Initial state: empty data directory, no fetcher constructed yet *)

InitFetchVars ==
    /\ now = 0
    /\ ticks = 0
    /\ pc = "none"
    /\ idx = 1
    /\ seen = EmptyLedger
    /\ disk = [ok |-> TRUE, map |-> EmptyLedger]
    /\ articles = <<>>
    /\ returned = <<>>
    /\ everEmitted = {}
    /\ saveFailed = FALSE
    /\ crashed = FALSE
    /\ lostUrls = {}
    /\ seenAtBegin = {}
    /\ diskAtBegin = [ok |-> TRUE, map |-> EmptyLedger]
    /\ armed = "no"
    /\ ranBefore = FALSE

InitProcVars ==
    /\ todo = <<>>
    /\ pi = 1
    /\ cur = EmptyDict
    /\ processed = <<>>
    /\ ppc = "idle"
    /\ calls = <<>>
    /\ lastReply = NoReply

InitGenVars ==
    /\ snapshots = NoFiles
    /\ pages = NoFiles
    /\ indexDay = {}
    /\ genStatus = "none"
    /\ genWrite = "none"
    /\ genArts = <<>>
    /\ genPrev = <<>>

InitJobVars ==
    /\ job = "idle"
    /\ jobResult = "none"
    /\ runs = 0

Init ==
    /\ InitFetchVars
    /\ InitProcVars
    /\ InitGenVars
    /\ InitJobVars
    /\ feeds \in FeedChoices
    /\ broken \in {{}, {SourceOrder[1]}}
    /\ batch = <<>>
    /\ cap = DefaultMaxArticles
    /\ otherJson = FALSE
    /\ apiKey = TRUE

-----------------------------------------------------------------------------
(* Ingestor operations *)

Idle == pc \in {"idle", "fetched", "purged"}

\* RSSFetcher.__init__: a new process / a new fetcher loads the ledger file.
\* Mutant: a ledger file that cannot be parsed leaves the ledger of the
\* previous fetcher in place.
NewFetcher_KeepMemory ==
    /\ pc = "none" \/ Idle
    /\ pc' = "idle"
    /\ seen' = IF disk.ok THEN disk.map ELSE seen
    /\ armed' = IF armed = "disk" THEN "disk" ELSE "no"
    /\ UNCHANGED nonFetchVars
    /\ UNCHANGED <<now, ticks, feeds, broken, ranBefore, idx, disk, articles, returned,
                   everEmitted, saveFailed, crashed, lostUrls, seenAtBegin,
                   diskAtBegin>>

NewFetcher ==
    /\ pc = "none" \/ Idle
    /\ pc' = "idle"
    /\ seen' = LoadSeen(disk)
    /\ armed' = IF armed = "disk" THEN "disk" ELSE "no"
    /\ UNCHANGED nonFetchVars
    /\ UNCHANGED <<now, ticks, feeds, broken, ranBefore, idx, disk, articles, returned,
                   everEmitted, saveFailed, crashed, lostUrls, seenAtBegin,
                   diskAtBegin>>

\* fetch_all entered: all_articles = []
FetchAllBegin ==
    /\ Idle
    /\ pc' = "fetching"
    /\ idx' = 1
    /\ articles' = <<>>
    /\ seenAtBegin' = DOMAIN seen
    /\ diskAtBegin' = disk
    /\ returned' = <<>>
    /\ UNCHANGED nonFetchVars
    /\ UNCHANGED <<now, ticks, feeds, broken, ranBefore, seen, disk, everEmitted,
                   saveFailed, crashed, lostUrls, armed>>

\* Mutant: fetch_source persists the ledger after every source.
FetchSource_WriteThrough ==
    /\ pc = "fetching"
    /\ idx <= Len(SourceOrder)
    /\ LET r == FetchSourceResult(SourceOrder[idx], seen, now)
       IN  /\ seen' = r.seen
           /\ disk' = SaveSeen(disk, r.seen, "ok")
           /\ articles' = articles \o r.arts
           /\ everEmitted' = everEmitted \cup Urls(r.arts)
    /\ idx' = idx + 1
    /\ UNCHANGED nonFetchVars
    /\ UNCHANGED <<now, ticks, feeds, broken, ranBefore, pc, returned, saveFailed,
                   crashed, lostUrls, seenAtBegin, diskAtBegin, armed>>

\* Mutant: the exception of a failing source leaves fetch_all.
FetchSource_Abort ==
    /\ pc = "fetching"
    /\ idx <= Len(SourceOrder)
    /\ LET r == FetchSourceResult(SourceOrder[idx], seen, now)
       IN  /\ seen' = r.seen
           /\ articles' = IF SourceOrder[idx] \in broken THEN <<>> ELSE articles \o r.arts
           /\ everEmitted' = everEmitted \cup Urls(r.arts)
    /\ idx' = idx + 1
    /\ pc' = IF SourceOrder[idx] \in broken THEN "none" ELSE pc
    /\ UNCHANGED nonFetchVars
    /\ UNCHANGED <<now, ticks, feeds, broken, ranBefore, disk, returned, saveFailed,
                   crashed, lostUrls, seenAtBegin, diskAtBegin, armed>>

\* fetch_all loop body: articles = self.fetch_source(name, url); extend
FetchSource ==
    /\ pc = "fetching"
    /\ idx <= Len(SourceOrder)
    /\ LET r == FetchSourceResult(SourceOrder[idx], seen, now)
       IN  /\ seen' = r.seen
           /\ articles' = articles \o r.arts
           /\ everEmitted' = everEmitted \cup Urls(r.arts)
    /\ idx' = idx + 1
    /\ UNCHANGED nonFetchVars
    /\ UNCHANGED <<now, ticks, feeds, broken, ranBefore, pc, disk, returned, saveFailed,
                   crashed, lostUrls, seenAtBegin, diskAtBegin, armed>>

\* fetch_all after the loop: save the ledger, sort, return.
FetchAllEnd ==
    /\ pc = "fetching"
    /\ idx > Len(SourceOrder)
    /\ \E outcome \in SaveOutcomes :
          /\ disk' = SaveSeen(disk, seen, outcome)
          /\ saveFailed' = (saveFailed \/ outcome # "ok")
          /\ armed' = IF outcome = "ok" THEN "disk" ELSE "mem"
    /\ returned' = SortDesc(articles)
    /\ articles' = <<>>
    /\ pc' = "fetched"
    /\ lostUrls' = {}
    /\ diskAtBegin' = disk'
    /\ UNCHANGED nonFetchVars
    /\ UNCHANGED <<now, ticks, feeds, broken, ranBefore, idx, seen, everEmitted,
                   crashed, seenAtBegin>>

\* cleanup(days) -> _cleanup_old_seen(days): filter, then save.  With track,
\* the step also notes whether it closes a run of fetch_all then cleanup.
CleanupStep(track) ==
    /\ Idle
    /\ seen' = PurgeLedger(seen, now, RetentionHours)
    /\ \E outcome \in SaveOutcomes :
          /\ disk' = SaveSeen(disk, seen', outcome)
          /\ saveFailed' = (saveFailed \/ outcome # "ok")
          /\ ranBefore' = IF track THEN (pc = "fetched" /\ outcome = "ok")
                          ELSE ranBefore
    /\ pc' = "purged"
    /\ armed' = "no"
    /\ UNCHANGED nonFetchVars
    /\ UNCHANGED <<now, ticks, feeds, broken, idx, articles, returned,
                   everEmitted, crashed, lostUrls, seenAtBegin, diskAtBegin>>

Cleanup == CleanupStep(FALSE)

CleanupOfRun == CleanupStep(TRUE)

\* The process dies between two steps of fetch_all: memory is lost.
Crash ==
    /\ pc = "fetching"
    /\ pc' = "none"
    /\ seen' = EmptyLedger
    /\ articles' = <<>>
    /\ crashed' = TRUE
    /\ lostUrls' = Urls(articles)
    /\ armed' = "no"
    /\ UNCHANGED nonFetchVars
    /\ UNCHANGED <<now, ticks, feeds, broken, ranBefore, idx, disk, returned, everEmitted,
                   saveFailed, seenAtBegin, diskAtBegin>>

\* Time passes.
Tick ==
    /\ ticks < MaxTicks
    /\ \E d \in TickSteps : now' = now + d
    /\ ticks' = ticks + 1
    /\ UNCHANGED nonFetchVars
    /\ UNCHANGED <<feeds, broken, ranBefore, pc, idx, seen, disk, articles, returned,
                   everEmitted, saveFailed, crashed, lostUrls, seenAtBegin,
                   diskAtBegin, armed>>

-----------------------------------------------------------------------------
(* Classifier operations *)

\* End of one loop iteration of process_articles.
NextArticle ==
    /\ pi' = pi + 1
    /\ ppc' = IF pi + 1 > Len(todo) THEN "done" ELSE "summary"
    /\ cur' = EmptyDict

\* process_articles entered: truncate, processed = [].
ProcBegin ==
    /\ ppc = "idle"
    /\ todo' = PySlice(batch, cap)
    /\ processed' = <<>>
    /\ pi' = 1
    /\ ppc' = IF todo' = <<>> THEN "done" ELSE "summary"
    /\ calls' = <<>>
    /\ UNCHANGED <<batch, cap, cur, lastReply>>
    /\ UNCHANGED nonProcVars

\* process_article: result = article.copy(); result['summary'] = ...
\* An article that makes it raise is handled by the except branch of the loop.
SummaryStep(replies) ==
    /\ ppc = "summary"
    /\ IF Raises(todo[pi])
       THEN /\ processed' = AppendFailed(processed, todo[pi])
            /\ calls' = <<>>
            /\ UNCHANGED lastReply
            /\ NextArticle
       ELSE /\ \E reply \in replies :
                  /\ cur' = Put(todo[pi], "summary", GenerateSummary(reply))
                  /\ calls' = <<reply.ok>>
                  /\ lastReply' = reply
            /\ ppc' = "decide"
            /\ UNCHANGED <<pi, processed>>
    /\ UNCHANGED <<batch, cap, todo>>
    /\ UNCHANGED nonProcVars

\* Mutant: the deep dive is made whatever the decision.
DecisionStep_AlwaysDeep(replies) ==
    /\ ppc = "decide"
    /\ \E reply \in replies :
          LET d == IsFeatured(reply)
          IN  /\ calls' = Append(calls, reply.ok)
              /\ lastReply' = reply
              /\ cur' = Put(Put(cur, "is_featured", d.featured),
                            "featured_reason", d.reason)
    /\ ppc' = "deep"
    /\ UNCHANGED <<pi, processed, batch, cap, todo>>
    /\ UNCHANGED nonProcVars

\* process_article: is_featured, reason = self.is_featured(...)
DecisionStep(replies) ==
    /\ ppc = "decide"
    /\ \E reply \in replies :
          LET d == IsFeatured(reply)
              result == Put(Put(cur, "is_featured", d.featured),
                            "featured_reason", d.reason)
          IN  /\ calls' = Append(calls, reply.ok)
              /\ lastReply' = reply
              /\ IF d.featured
                 THEN /\ cur' = result
                      /\ ppc' = "deep"
                      /\ UNCHANGED <<pi, processed>>
                 ELSE /\ processed' = Append(processed, result)
                      /\ NextArticle
    /\ UNCHANGED <<batch, cap, todo>>
    /\ UNCHANGED nonProcVars

\* Mutant: process_article works on the article itself instead of a copy, so
\* the record of the input list is the record that is returned.
DeepDiveStep_InPlace(replies) ==
    /\ ppc = "deep"
    /\ \E reply \in replies :
          LET result == AfterDeepDive(cur, GenerateFeaturedContent(reply))
          IN  /\ processed' = Append(processed, result)
              /\ todo' = [todo EXCEPT ![pi] = result]
              /\ batch' = [batch EXCEPT ![pi] = result]
              /\ calls' = Append(calls, reply.ok)
              /\ lastReply' = reply
    /\ NextArticle
    /\ UNCHANGED cap
    /\ UNCHANGED nonProcVars

\* process_article: featured = self.generate_featured_content(article); ...
DeepDiveStep(replies) ==
    /\ ppc = "deep"
    /\ \E reply \in replies :
          /\ processed' = Append(processed,
                                 AfterDeepDive(cur, GenerateFeaturedContent(reply)))
          /\ calls' = Append(calls, reply.ok)
          /\ lastReply' = reply
    /\ NextArticle
    /\ UNCHANGED <<batch, cap, todo>>
    /\ UNCHANGED nonProcVars

GenSummary == SummaryStep(BatchSummaryReplies)
Decide == DecisionStep(BatchDecisionReplies)
DeepDive == DeepDiveStep(DeepReplies)

InitProc ==
    /\ InitFetchVars
    /\ InitProcVars
    /\ InitGenVars
    /\ InitJobVars
    /\ otherJson = FALSE
    /\ apiKey = TRUE
    /\ feeds = [s \in Sources |-> <<>>]
    /\ broken = {}
    /\ batch \in BatchChoices
    /\ cap \in CapChoices

NextProc ==
    \/ ProcBegin
    \/ GenSummary
    \/ Decide
    \/ DeepDive

SpecProc == InitProc /\ [][NextProc]_vars

\* One article classified, with every kind of reply at each step.
AnySummary == SummaryStep(SummaryReplies)
AnyDecision == DecisionStep(DecisionReplies)

InitClassify ==
    /\ InitFetchVars
    /\ InitProcVars
    /\ InitGenVars
    /\ InitJobVars
    /\ otherJson = FALSE
    /\ apiKey = TRUE
    /\ feeds = [s \in Sources |-> <<>>]
    /\ broken = {}
    /\ batch = <<GoodArticle>>
    /\ cap = DefaultMaxArticles

NextClassify ==
    \/ ProcBegin
    \/ AnySummary
    \/ AnyDecision
    \/ DeepDive

SpecClassify == InitClassify /\ [][NextClassify]_vars

-----------------------------------------------------------------------------
(* Snapshot builder operations *)

\* The processed lists handed to generate on its own.
FeaturedRecord ==
    Update(Put(Put(Put(GoodArticle, "summary", [kind |-> "text", len |-> 1]),
                   "is_featured", TRUE), "featured_reason", "reason"),
           [core_content |-> "text", what_you_learn |-> "text", action_advice |-> "text"])
PlainRecord ==
    Put(Put(Put(BadArticle, "summary", FallbackSummary),
            "is_featured", FALSE), "featured_reason", "AI_FAILED")
GenInputs == {<<FeaturedRecord>>, <<PlainRecord>>}

\* The effect of one call generate(arts) on the output directory.
Generate(arts, outcome) ==
    LET r == GenerateResult(arts, now, outcome)
    IN  /\ snapshots' = r.files
        /\ pages' = r.pages
        /\ indexDay' = r.index
        /\ genStatus' = IF r.raised THEN "raised" ELSE "returned"
        /\ genWrite' = outcome
        /\ genArts' = arts
        /\ genPrev' = FileAt(snapshots, Day(now))

\* PageGenerator.generate called on its own (as test_page_generator does).
GenerateCall ==
    /\ \E arts \in GenInputs, outcome \in GenOutcomes : Generate(arts, outcome)
    /\ UNCHANGED <<otherJson>>
    /\ UNCHANGED <<fetchVars, procVars, jobVars>>

\* Time passes between two calls of generate: one day or six days, so that
\* after both a snapshot lies on the edge of the window of a later page and
\* another just outside it.
GenTickSteps == {24, KeepDataHours - 24}

GenTick ==
    /\ ticks < MaxTicks
    /\ \E d \in GenTickSteps : now' = now + d
    /\ ticks' = ticks + 1
    /\ UNCHANGED <<feeds, broken, ranBefore, pc, idx, seen, disk, articles, returned,
                   everEmitted, saveFailed, crashed, lostUrls, seenAtBegin,
                   diskAtBegin, armed>>
    /\ UNCHANGED nonFetchVars

InitGen ==
    /\ InitFetchVars
    /\ InitProcVars
    /\ InitGenVars
    /\ InitJobVars
    /\ feeds = [s \in Sources |-> <<>>]
    /\ broken = {}
    /\ batch = <<>>
    /\ cap = DefaultMaxArticles
    /\ otherJson = TRUE
    /\ apiKey = TRUE

NextGen ==
    \/ GenerateCall
    \/ GenTick

SpecGen == InitGen /\ [][NextGen]_vars

-----------------------------------------------------------------------------
(* run_job *)

RunCapChoices == {1, DefaultMaxArticles}

\* The feeds of the runs: at most one entry per source, with a link and
\* undated, which is always recent.  The urls being interchangeable, the first
\* entry read carries the first one.
RunFeedChoices ==
    {f \in FeedChoices :
        /\ \A s \in Sources :
              /\ Len(f[s]) <= 1
              /\ \A i \in 1..Len(f[s]) :
                    f[s][i].link # NoLink /\ f[s][i].published = <<>>
        /\ LET read == f[SourceOrder[1]] \o f[SourceOrder[2]]
           IN  read # <<>> => read[1].link = "u1"}

\* The number of entries of the feeds.
Entered(f) == Len(f[SourceOrder[1]]) + Len(f[SourceOrder[2]])

RunSummaryReplies == {[ok |-> TRUE, quoted |-> FALSE, n |-> 1]}
RunDecisionReplies ==
    {CallFailed, [ok |-> TRUE, marker |-> "yes_fullwidth_colon", reason |-> TRUE]}
RunDeepReplies ==
    {[ok |-> TRUE, chunks |-> ChunksOf([k \in 1..3 |-> "B"], [k \in 1..3 |-> TRUE])]}

\* run_job up to the call of fetch_all: without the key it returns False at
\* once; with it, a fetcher is constructed and fetch_all is entered.
RunEnter ==
    /\ jobResult' = "none"
    /\ job' = "fetch"
    /\ seen' = LoadSeen(disk)
    /\ armed' = IF armed = "disk" THEN "disk" ELSE "no"
    /\ pc' = "fetching"
    /\ idx' = 1
    /\ articles' = <<>>
    /\ returned' = <<>>
    /\ seenAtBegin' = DOMAIN seen'
    /\ diskAtBegin' = disk
    /\ UNCHANGED <<now, ticks, feeds, broken, ranBefore, disk, everEmitted,
                   saveFailed, crashed, lostUrls>>

\* Mutant: the run goes on without the key.
RunStart_NoKeyCheck ==
    /\ job = "idle"
    /\ runs < MaxRuns
    /\ runs' = runs + 1
    /\ RunEnter
    /\ UNCHANGED <<apiKey, procVars, genVars>>

RunStart ==
    /\ job = "idle"
    /\ runs < MaxRuns
    /\ runs' = runs + 1
    /\ IF ~apiKey
       THEN /\ jobResult' = "false"
            /\ UNCHANGED <<job, fetchVars>>
       ELSE RunEnter
    /\ UNCHANGED <<apiKey, procVars, genVars>>

\* run_job, step two: process_articles is entered when there are articles.
\* Mutant: handing the batch to the classifier empties the in-memory ledger.
RunProcess_ForgetLedger ==
    /\ job = "fetch"
    /\ pc = "fetched"
    /\ job' = "process"
    /\ batch' = returned
    /\ todo' = IF returned # <<>> THEN PySlice(returned, cap) ELSE <<>>
    /\ processed' = <<>>
    /\ pi' = 1
    /\ ppc' = IF todo' = <<>> THEN "done" ELSE "summary"
    /\ calls' = <<>>
    /\ seen' = EmptyLedger
    /\ UNCHANGED <<cap, cur, lastReply, apiKey, jobResult, runs>>
    /\ UNCHANGED <<now, ticks, feeds, broken, ranBefore, pc, idx, disk, articles,
                   returned, everEmitted, saveFailed, crashed, lostUrls,
                   seenAtBegin, diskAtBegin, armed>>
    /\ UNCHANGED genVars

RunProcess ==
    /\ job = "fetch"
    /\ pc = "fetched"
    /\ job' = "process"
    /\ batch' = returned
    /\ todo' = IF returned # <<>> THEN PySlice(returned, cap) ELSE <<>>
    /\ processed' = <<>>
    /\ pi' = 1
    /\ ppc' = IF todo' = <<>> THEN "done" ELSE "summary"
    /\ calls' = <<>>
    /\ UNCHANGED <<cap, cur, lastReply, apiKey, jobResult, runs>>
    /\ UNCHANGED <<fetchVars, genVars>>

RunSummary == SummaryStep(RunSummaryReplies)
RunDecide == DecisionStep(RunDecisionReplies)
RunDeepDive == DeepDiveStep(RunDeepReplies)

\* run_job, steps three and four: generate, then fetcher.cleanup, return True;
\* any exception is caught by run_job, which then returns False.
RunFinish ==
    /\ job = "process"
    /\ ppc = "done"
    /\ job' = "idle"
    /\ ppc' = "idle"
    /\ \E outcome \in GenOutcomes :
          /\ Generate(processed, outcome)
          /\ IF genStatus' = "raised"
             THEN /\ jobResult' = "false"
                  /\ UNCHANGED <<seen, disk, saveFailed, pc, armed>>
             ELSE /\ jobResult' = "true"
                  /\ seen' = PurgeLedger(seen, now, RetentionHours)
                  /\ \E save \in SaveOutcomes :
                        /\ disk' = SaveSeen(disk, seen', save)
                        /\ saveFailed' = (saveFailed \/ save # "ok")
                  /\ pc' = "purged"
                  /\ armed' = "no"
    /\ UNCHANGED <<now, ticks, feeds, broken, ranBefore, idx, articles, returned,
                   everEmitted, crashed, lostUrls, seenAtBegin, diskAtBegin>>
    /\ UNCHANGED <<batch, cap, todo, pi, cur, processed, calls, lastReply>>
    /\ UNCHANGED <<otherJson, apiKey, runs>>

\* Time passes before a run.
RunTick ==
    /\ job = "idle"
    /\ runs < MaxRuns
    /\ Tick

InitRun ==
    /\ InitFetchVars
    /\ InitProcVars
    /\ InitGenVars
    /\ InitJobVars
    /\ feeds \in RunFeedChoices
    /\ broken = {}
    /\ batch = <<>>
    /\ cap \in (IF Entered(feeds) > 1 THEN RunCapChoices ELSE {DefaultMaxArticles})
    /\ otherJson = FALSE
    /\ apiKey \in BOOLEAN

NextRun ==
    \/ RunStart
    \/ FetchSource
    \/ FetchAllEnd
    \/ RunProcess
    \/ RunSummary
    \/ RunDecide
    \/ RunDeepDive
    \/ RunFinish
    \/ RunTick

SpecRun == InitRun /\ [][NextRun]_vars

NextFetch ==
    \/ NewFetcher
    \/ FetchAllBegin
    \/ FetchSource
    \/ FetchAllEnd
    \/ Cleanup
    \/ Tick

SpecFetch == Init /\ [][NextFetch]_vars

NextCrash ==
    \/ NewFetcher
    \/ FetchAllBegin
    \/ FetchSource
    \/ FetchAllEnd
    \/ Crash
    \/ Tick

SpecCrash == Init /\ [][NextCrash]_vars

\* Runs in series: each run is fetch_all followed by cleanup.
NextSeries ==
    \/ NewFetcher
    \/ FetchAllBegin
    \/ FetchSource
    \/ FetchAllEnd
    \/ CleanupOfRun
    \/ Tick

SpecSeries == Init /\ [][NextSeries]_vars

-----------------------------------------------------------------------------
(* Properties of the ingestor *)

NoDupUrls(arts) ==
    \A i, j \in 1..Len(arts) : arts[i].url = arts[j].url => i = j

\* The articles a step appended to all_articles.
NewArticles == {articles'[i] : i \in (Len(articles) + 1)..Len(articles')}

\* A step that is one call of fetch_source for the source at idx.
IsFetchSourceStep == pc = "fetching" /\ pc' = "fetching" /\ idx' = idx + 1

\* A step that is one call of cleanup.
IsCleanupStep == pc' = "purged" /\ ticks' = ticks

\* The positions <<source, index>> of the feed entries.
EntryAt == {<<s, i>> \in Sources \X (1..MaxEntries) : i <= Len(feeds[s])}

\* C3 (dedup idempotence): a fetch_all that directly follows a completed
\* fetch_all -- on the same fetcher, or on a new fetcher that loaded the ledger
\* the first run saved -- returns the empty list.
C3_DedupIdempotence ==
    [][(pc = "fetching" /\ pc' = "fetched" /\ armed # "no") => returned' = <<>>]_vars

\* Witness of C3: a second run in succession has fetched every source; the
\* first run had emitted an article, and time has passed in between.
C3_Witness ==
    /\ pc = "fetching" /\ idx > Len(SourceOrder)
    /\ armed = "disk"
    /\ everEmitted # {}
    /\ seenAtBegin # {}
    /\ ticks > 0
    /\ articles = <<>>

\* C4 (at-most-once across runs), as claimed: while every ledger save has
\* succeeded, fetch_source never emits a url it has emitted before.
C4_AtMostOnce ==
    [][(IsFetchSourceStep /\ ~saveFailed)
          => \A a \in NewArticles : a.url \notin everEmitted]_vars

\* C5 (crash safety of record), as claimed: the run after an interrupted run
\* does not emit again what the interrupted run had emitted.
C5_NoReEmitAfterCrash ==
    [][IsFetchSourceStep => \A a \in NewArticles : a.url \notin lostUrls]_vars

\* C5 amended: recording is in memory only; from the start of fetch_all until
\* its save, and after an interruption in between, the ledger file is the one
\* the run found, so the next process loads a ledger without the lost records.
C5_RecordIsBuffered ==
    pc \in {"fetching", "none"} => disk = diskAtBegin

\* Witness of C5: after an interrupted run the retry has emitted an article the
\* interrupted run had already emitted.
C5_Witness ==
    /\ crashed
    /\ pc = "fetching"
    /\ lostUrls # {}
    /\ Urls(articles) \cap lostUrls # {}

\* C6 (url unique within a run): neither the list being built nor the list
\* returned holds a url twice, or a url the ledger held when the run began.
C6_UniqueWithinRun ==
    /\ NoDupUrls(articles)
    /\ NoDupUrls(returned)
    /\ (Urls(articles) \cup Urls(returned)) \cap seenAtBegin = {}

\* Witness of C6: fetch_all has returned an article whose link occurs in two
\* feed entries that were both read.
C6_Witness ==
    /\ pc = "fetched"
    /\ broken = {}
    /\ \E p, q \in EntryAt :
          /\ p # q
          /\ feeds[p[1]][p[2]].link = feeds[q[1]][q[2]].link
          /\ feeds[p[1]][p[2]].link \in Urls(returned)

\* C7 (recency filter): every article fetch_source emits has a localized
\* publish time not more than 24 h before now; and an entry without publish
\* time that has a link is emitted as published now, unless the ledger holds
\* its link or an earlier entry of the same feed carries it.
C7_RecencyFilter ==
    [][IsFetchSourceStep =>
          /\ \A a \in NewArticles : a.published >= now - RecencyHours
          /\ SourceOrder[idx] \notin broken =>
                \A i \in 1..Len(feeds[SourceOrder[idx]]) :
                   LET e == feeds[SourceOrder[idx]][i]
                   IN  (/\ e.published = <<>>
                        /\ e.link # NoLink
                        /\ e.link \notin DOMAIN seen
                        /\ \A j \in 1..(i - 1) : feeds[SourceOrder[idx]][j].link # e.link)
                          => \E a \in NewArticles : a.url = e.link /\ a.published = now
       ]_vars

\* Witness of C7: the first source has been fetched; a dated entry of it whose
\* link the ledger does not hold was left out as too old, and an undated entry
\* was emitted with publish time now.
C7_Witness ==
    /\ pc = "fetching" /\ idx = 2
    /\ SourceOrder[1] \notin broken
    /\ \E i \in 1..Len(feeds[SourceOrder[1]]) :
          LET e == feeds[SourceOrder[1]][i]
          IN  /\ e.published # <<>>
              /\ e.link \notin DOMAIN seen
              /\ Localize(e.published[1]) < now - RecencyHours
    /\ \E i \in 1..Len(feeds[SourceOrder[1]]) :
          LET e == feeds[SourceOrder[1]][i]
          IN  /\ e.published = <<>>
              /\ \E k \in 1..Len(articles) :
                    articles[k].url = e.link /\ articles[k].published = now

\* The ledger purge as specified: exactly the entries later than the cutoff,
\* each with its timestamp.
PurgeExpected(ledger, t) ==
    [u \in {v \in DOMAIN ledger : ledger[v] > t - RetentionHours} |-> ledger[u]]

\* C8 (ledger purge), as claimed: after cleanup the ledger holds exactly the
\* entries later than now - retention, unchanged, and the file equals it.
C8_PurgeAndPersist ==
    [][IsCleanupStep =>
          /\ seen' = PurgeExpected(seen, now)
          /\ disk' = [ok |-> TRUE, map |-> seen']]_vars

\* C8 amended: the in-memory ledger is filtered as claimed; the file equals it
\* when the write succeeds, and is left as it was or unreadable when it fails.
C8_PurgeThenSave ==
    [][IsCleanupStep =>
          /\ seen' = PurgeExpected(seen, now)
          /\ \/ disk' = [ok |-> TRUE, map |-> seen']
             \/ disk' = disk
             \/ ~disk'.ok]_vars

\* Witness of C8: a cleanup has run and was persisted; the ledger kept one
\* entry and no longer holds a url that had been recorded.
C8_Witness ==
    /\ pc = "purged"
    /\ disk = [ok |-> TRUE, map |-> seen]
    /\ DOMAIN seen # {}
    /\ everEmitted \ DOMAIN seen # {}
    /\ ~saveFailed

-----------------------------------------------------------------------------
(* Properties of the classifier *)

Has(r, key) == key \in DOMAIN r /\ r[key] # ""

\* C1 (feature invariant), as claimed: every record of the processed list with
\* is_featured = true has non-empty core_content, what_you_learn, action_advice.
C1_FeaturedHasDeepDive ==
    \A i \in 1..Len(processed) :
       processed[i].is_featured =>
          /\ Has(processed[i], "core_content")
          /\ Has(processed[i], "what_you_learn")
          /\ Has(processed[i], "action_advice")

\* C2 (batch count), as claimed: process_articles returns as many records as
\* it was given articles.
C2_CountEqualsInput ==
    ppc = "done" => Len(processed) = Len(batch)

\* C2 amended: with max_articles >= 0 it returns exactly min(N, max_articles)
\* records, whatever calls fail and whichever articles raise.
C2_CountEqualsAdmitted ==
    (ppc = "done" /\ cap >= 0) => Len(processed) = Min(Len(batch), cap)

\* Witness of C2: a full batch is done; one article raised and another had
\* every model call fail.
C2_Witness ==
    /\ ppc = "done"
    /\ Len(batch) = MaxBatch
    /\ cap >= Len(batch)
    /\ Len(processed) = MaxBatch
    /\ \E i \in 1..Len(batch) : Raises(batch[i])
    /\ \E i \in 1..Len(processed) :
          /\ "featured_reason" \in DOMAIN processed[i]
          /\ processed[i].featured_reason = "AI_FAILED"
          /\ processed[i].summary = FallbackSummary

-----------------------------------------------------------------------------
(* Properties of run_job and of the snapshot builder *)

\* A step with which a run of run_job that had the credential ends.
IsRunEnd == job # "idle" /\ job' = "idle"

\* C9 (end-of-run purge), as claimed: when a run with the credential ends, the
\* ledger holds no entry the 7-day purge removes.
C9_PurgedAtRunEnd ==
    [][IsRunEnd => \A u \in DOMAIN seen' : seen'[u] > now - RetentionHours]_vars

\* C10, as claimed: a call of generate whose file writes all succeed returns
\* without raising.
C10_GenerateReturns ==
    genWrite = "ok" => genStatus = "returned"

\* A step in which generate is called and its snapshot write succeeds.
IsSnapshotWritten ==
    /\ <<snapshots, genStatus, genWrite, genArts, genPrev>>'
          # <<snapshots, genStatus, genWrite, genArts, genPrev>>
    /\ genWrite' \in {"ok", "html"}

\* C11 (snapshot overwrite): a call of generate whose snapshot write succeeds
\* leaves, for its date, a complete snapshot whose articles are exactly the
\* list of that call and whose featured_count is the count over that list,
\* whatever snapshot the date held before.
C11_SnapshotOverwrite ==
    [][IsSnapshotWritten =>
          /\ Day(now) \in DOMAIN snapshots'
          /\ snapshots'[Day(now)].ok
          /\ snapshots'[Day(now)].articles = genArts'
          /\ snapshots'[Day(now)].featured_count = FeaturedCount(genArts')]_vars

\* A second call for a date has replaced a complete snapshot holding another list.
C11_Witness ==
    /\ genWrite \in {"ok", "html"}
    /\ genPrev # <<>>
    /\ genPrev[1].ok
    /\ genPrev[1].articles # genArts
    /\ genPrev[1].articles # <<>>
    /\ genPrev[1].date \in DOMAIN snapshots
    /\ snapshots[genPrev[1].date].ok
    /\ snapshots[genPrev[1].date].articles = genArts
    /\ snapshots[genPrev[1].date].featured_count # genPrev[1].featured_count

-----------------------------------------------------------------------------
(* Properties of the per-step fallbacks of the classifier *)

\* The article process_article has just returned, with `calls` telling which
\* of its model calls returned.
Returned == ppc \in {"summary", "done"} /\ processed # <<>> /\ calls # <<>>
LastProcessed == processed[Len(processed)]

\* C12 (summary-step failure), as claimed: when the model call of the summary
\* step fails, the output article has the fallback summary and is not
\* featured, whatever the later calls return.
C12_SummaryFailureNotFeatured ==
    (Returned /\ ~calls[1]) =>
        /\ LastProcessed.summary = FallbackSummary
        /\ LastProcessed.is_featured = FALSE

\* C13 (deep-dive call failure): when the decision step yields featured and
\* the deep-dive call fails, the output is the article as it stood after the
\* decision step (summary and featured_reason included) with is_featured set
\* to false, and it has none of the three deep-dive fields.
C13_DeepDiveFailureDegrades ==
    [][(ppc = "deep" /\ Len(calls') = 3 /\ ~calls'[3]) =>
          /\ processed' = Append(processed, Put(cur, "is_featured", FALSE))
          /\ cur.is_featured
          /\ {"summary", "featured_reason"} \subseteq DOMAIN processed'[Len(processed')]
          /\ \A k \in 1..3 : SectionKeys[k] \notin DOMAIN processed'[Len(processed')]]_vars

\* An article was judged featured, its deep-dive call failed, and it was returned.
C13_Witness ==
    /\ Returned
    /\ Len(calls) = 3
    /\ calls[2]
    /\ ~calls[3]
    /\ LastProcessed.is_featured = FALSE
    /\ LastProcessed.featured_reason = "reason"

-----------------------------------------------------------------------------
(* Properties of run_job's failure handling *)

\* A step that starts a run of run_job.
IsRunStart == job = "idle" /\ runs' = runs + 1

\* C14 (fatal precondition): a run started without the api_key returns failure
\* at once: no feed is fetched, the ledger in memory and on disk and every
\* snapshot file are as before, and no model call is made.
C14_NoKeyNoEffect ==
    [][(IsRunStart /\ ~apiKey) =>
          /\ jobResult' = "false"
          /\ job' = "idle"
          /\ UNCHANGED <<fetchVars, procVars, genVars>>]_vars

\* A run was started without the key and returned failure.
C14_Witness == ~apiKey /\ runs > 0 /\ jobResult = "false" /\ job = "idle"

\* C15 (persistence failure does not abort), as claimed: a run whose snapshot
\* write fails still generates the pages, purges the ledger and returns
\* success.
C15_SnapshotFailureContinues ==
    [][(IsRunEnd /\ genWrite' \in {"unchanged", "truncated"}) =>
          /\ Day(now) \in DOMAIN pages'
          /\ indexDay' = {Day(now)}
          /\ pc' = "purged"
          /\ jobResult' = "true"]_vars

\* C16 (no partial snapshot), as claimed: no snapshot file is ever a partially
\* written record.
C16_NoPartialSnapshot ==
    \A d \in DOMAIN snapshots : snapshots[d].ok

-----------------------------------------------------------------------------
(* Properties of fetch_all *)

\* What fetch_source emits for a source whose feed is read without error.
EmittedBy(name) == FetchEntries(name, feeds[name], 1, seen, <<>>, now).arts

\* C17 (source-level isolation): while a source is left to visit, the step
\* fetch_all takes is the visit of that source and fetch_all goes on to the
\* next one, whether or not the source fails: a failing source adds nothing
\* and leaves the list and the ledger as they are, and any other source adds
\* exactly the articles its own feed yields.
C17_SourceIsolation ==
    [][(pc = "fetching" /\ idx <= Len(SourceOrder) /\ ticks' = ticks) =>
          /\ pc' = "fetching"
          /\ idx' = idx + 1
          /\ SourceOrder[idx] \in broken => (articles' = articles /\ seen' = seen)
          /\ SourceOrder[idx] \notin broken =>
                articles' = articles \o EmittedBy(SourceOrder[idx])]_vars

\* fetch_all has returned the articles of the second source after the first
\* source, whose feed has entries, failed.
C17_Witness ==
    /\ pc = "fetched"
    /\ broken = {SourceOrder[1]}
    /\ feeds[SourceOrder[1]] # <<>>
    /\ returned # <<>>
    /\ \A i \in 1..Len(returned) : returned[i].source = SourceOrder[2]

-----------------------------------------------------------------------------
(* Properties of the batch loop and of consecutive runs *)

\* C18 (article-level isolation): when process_article raises for the article
\* at position pi, the output gets at that position the article with the
\* failure summary and is_featured = false, the loop goes on to the next
\* article, and at the end the output has one article per admitted article, in
\* the same order.
C18_ArticleIsolation ==
    [][(ppc = "summary" /\ Raises(todo[pi])) =>
          /\ Len(processed') = pi
          /\ processed'[pi] = Put(Put(todo[pi], "summary", FallbackSummary),
                                  "is_featured", FALSE)
          /\ SubSeq(processed', 1, pi - 1) = processed
          /\ pi' = pi + 1
          /\ ppc' = IF pi < Len(todo) THEN "summary" ELSE "done"
          /\ ppc' = "done" =>
                /\ Len(processed') = Len(todo)
                /\ \A i \in 1..Len(todo) : processed'[i].url = todo[i].url]_vars

\* The first article raised and the article after it was classified.
C18_Witness ==
    /\ ppc = "done"
    /\ Len(todo) = 2
    /\ Raises(todo[1])
    /\ ~Raises(todo[2])
    /\ Len(processed) = 2
    /\ processed[1].summary = FallbackSummary
    /\ processed[1].is_featured = FALSE
    /\ processed[2].summary.kind = "text"
    /\ "featured_reason" \in DOMAIN processed[2]

\* C19 (second-run ledger stability), as claimed: in the run that follows a
\* complete run on the same feeds, fetch_source adds no entry to the ledger,
\* and when every entry is within retention at its purge step the ledger after
\* the purge has the entries it had when the run began.
C19_SecondRunLedgerStable ==
    [][/\ (ranBefore /\ IsFetchSourceStep) => DOMAIN seen' = DOMAIN seen
       /\ (ranBefore /\ IsCleanupStep /\ pc = "fetched"
             /\ \A u \in DOMAIN seen : seen[u] > now - RetentionHours)
           => DOMAIN seen' = seenAtBegin]_vars

\* C20 (merge, order, single save): while fetch_all visits the sources the
\* ledger file is not written; the step that ends fetch_all writes the whole
\* ledger once, and returns the articles collected from all sources, each
\* once, ordered by published time, newest first.
C20_SortedAndSavedOnce ==
    [][(pc = "fetching" /\ ticks' = ticks) =>
          IF idx <= Len(SourceOrder)
          THEN disk' = disk /\ pc' = "fetching"
          ELSE /\ pc' = "fetched"
               /\ seen' = seen
               /\ \E outcome \in SaveOutcomes : disk' = SaveSeen(disk, seen, outcome)
               /\ Len(returned') = Len(articles)
               /\ {returned'[i] : i \in 1..Len(returned')}
                     = {articles[i] : i \in 1..Len(articles)}
               /\ \A i, j \in 1..Len(returned') :
                     i < j => returned'[i].published >= returned'[j].published]_vars

\* fetch_all returned two articles, the newer one from the later source first,
\* and the ledger on disk is the ledger in memory.
C20_Witness ==
    /\ pc = "fetched"
    /\ Len(returned) = 2
    /\ returned[1].source = SourceOrder[2]
    /\ returned[2].source = SourceOrder[1]
    /\ returned[1].published > returned[2].published
    /\ LoadSeen(disk) = seen

-----------------------------------------------------------------------------
(* Properties of the classifier's batch protocol *)

\* A step in which a model call is made and returns or fails.
IsModelCall == calls' # calls /\ calls' # <<>>

\* C21 (admission cap): with a cap that is a count (max_articles >= 0), the
\* articles admitted are the first min(N, max_articles) of the input in input
\* order; every model call is made for the admitted article at the loop's
\* position; the records output so far are those of the first articles in
\* order; and at the end there is exactly one record per admitted article.
C21_AdmissionCap ==
    [][(cap >= 0 /\ ppc' # "idle") =>
          /\ todo' = SubSeq(batch, 1, Min(Len(batch), cap))
          /\ IsModelCall => (pi <= Min(Len(batch), cap) /\ todo[pi] = batch[pi])
          /\ Len(processed') <= Min(Len(batch), cap)
          /\ \A i \in 1..Len(processed') : processed'[i].url = batch[i].url
          /\ ppc' = "done" => Len(processed') = Min(Len(batch), cap)]_vars

\* A batch of two was cut to one article, which was classified by model calls.
C21_Witness ==
    /\ ppc = "done"
    /\ cap = 1
    /\ Len(batch) = 2
    /\ Len(processed) = 1
    /\ calls # <<>>
    /\ processed[1].url = batch[1].url

\* C22 (protocol order): every model call is made for the article at the
\* loop's position, after all earlier articles have been output; the first
\* call for an article is the summary call, the second the decision call, the
\* third the deep-dive call; after the decision call the deep dive is next
\* exactly when the decision was featured, and otherwise the article is output
\* at once; after the deep-dive call the article is output.
C22_ProtocolOrder ==
    [][IsModelCall =>
          /\ Len(processed) = pi - 1
          /\ pi <= Len(todo)
          /\ ppc = "summary" <=> Len(calls') = 1
          /\ ppc = "decide" <=> (Len(calls') = 2 /\ Len(calls) = 1)
          /\ ppc = "deep" <=> (Len(calls') = 3 /\ Len(calls) = 2)
          /\ ppc = "summary" => (ppc' = "decide" /\ processed' = processed)
          /\ ppc = "decide" =>
                IF ppc' = "deep"
                THEN cur'.is_featured /\ processed' = processed
                ELSE /\ Len(processed') = pi
                     /\ ~processed'[pi].is_featured
                     /\ pi' = pi + 1
          /\ ppc = "deep" =>
                (cur.is_featured /\ Len(processed') = pi /\ pi' = pi + 1)]_vars

\* Two articles were classified in turn: the first with three calls and the
\* deep-dive fields, the second with two calls and no deep dive.
C22_Witness ==
    /\ ppc = "done"
    /\ Len(processed) = 2
    /\ processed[1].is_featured
    /\ "core_content" \in DOMAIN processed[1]
    /\ Len(calls) = 2
    /\ ~processed[2].is_featured
    /\ "core_content" \notin DOMAIN processed[2]

-----------------------------------------------------------------------------
(* Properties of the classifier's steps, over every kind of reply *)

\* The article as the decision step leaves it: still being processed when it
\* was judged featured, output otherwise.
AfterDecision == IF ppc' = "deep" THEN cur' ELSE processed'[Len(processed')]

\* C23 (parse failure equals call failure), as claimed: a decision reply with
\* neither marker nor rationale gives not featured with the failure rationale,
\* and a deep-dive reply with no section label leaves the article not featured.
C23_ParseFailureIsCallFailure ==
    [][IsModelCall =>
          /\ (ppc = "decide" /\ lastReply'.ok /\ lastReply'.marker = "none"
                /\ ~lastReply'.reason)
              => /\ AfterDecision.is_featured = FALSE
                 /\ AfterDecision.featured_reason = "AI_FAILED"
          /\ (ppc = "deep" /\ lastReply'.ok
                /\ lastReply'.chunks = <<[label |-> "-", body |-> TRUE]>>)
              => processed'[Len(processed')].is_featured = FALSE]_vars

\* C24 (feature decision): a failed decision call gives (false, failure
\* rationale); a reply gives featured = true exactly when it holds the marker
\* with the full-width colon or with colon and space.
C24_FeatureDecision ==
    [][(IsModelCall /\ ppc = "decide") =>
          IF ~lastReply'.ok
          THEN /\ AfterDecision.is_featured = FALSE
               /\ AfterDecision.featured_reason = "AI_FAILED"
          ELSE AfterDecision.is_featured
                  = (lastReply'.marker \in {"yes_fullwidth_colon", "yes_colon_space"})]_vars

\* A reply holding the marker with colon and space was judged featured.
C24_Witness ==
    /\ ppc = "deep"
    /\ Len(calls) = 2
    /\ lastReply.ok
    /\ lastReply.marker = "yes_colon_space"
    /\ cur.is_featured

RecordFields ==
    {"url", "title", "source", "published", "content", "summary", "is_featured",
     "featured_reason"}

C26_RecordFields ==
    \A i \in 1..Len(processed) : RecordFields \subseteq DOMAIN processed[i]

\* C27 (ledger ownership): from the moment run_job hands the batch to
\* process_articles until generate has returned or raised, neither the
\* in-memory ledger nor the ledger file changes; the only change made in the
\* step that ends the run is the purge and save of fetcher.cleanup, which runs
\* when generate has returned.
IsClassifierOrGenerateStep == job = "process" \/ (job = "fetch" /\ job' = "process")

C27_LedgerOwnership ==
    [][IsClassifierOrGenerateStep =>
          \/ seen' = seen /\ disk' = disk
          \/ /\ IsRunEnd
             /\ genStatus' # "raised"
             /\ seen' = PurgeLedger(seen, now, RetentionHours)
             /\ \E save \in SaveOutcomes : disk' = SaveSeen(disk, seen', save)]_vars

\* A run recorded links, classified a batch whose decision call failed, and
\* generate raised: the ledger in memory and on disk still hold the links.
C27_Witness ==
    /\ job = "idle"
    /\ jobResult = "false"
    /\ genStatus = "raised"
    /\ processed # <<>>
    /\ processed[1].featured_reason = "AI_FAILED"
    /\ seen # EmptyLedger
    /\ disk.ok
    /\ disk.map = seen

\* C28 (snapshot tally): the snapshot generate writes holds the list it was
\* given, element for element, and its featured_count is the number of
\* positions of that list whose is_featured is true.
C28_SnapshotTally ==
    [][IsSnapshotWritten =>
          LET s == snapshots'[Day(now)]
          IN /\ Len(s.articles) = Len(processed)
             /\ \A i \in 1..Len(processed) : s.articles[i] = processed[i]
             /\ s.featured_count
                   = Cardinality({i \in 1..Len(processed) : processed[i].is_featured})]_vars

\* A snapshot of two articles, the first featured and the second not.
C28_Witness ==
    /\ genWrite \in {"ok", "html"}
    /\ Day(now) \in DOMAIN snapshots
    /\ Len(snapshots[Day(now)].articles) = 2
    /\ snapshots[Day(now)].articles[1].is_featured
    /\ ~snapshots[Day(now)].articles[2].is_featured
    /\ snapshots[Day(now)].articles[1].url # snapshots[Day(now)].articles[2].url
    /\ snapshots[Day(now)].featured_count = 1

\* C29 (available dates): the list rendered into the daily page of today holds
\* exactly the days among today and the 6 days before it that have a snapshot
\* file when the page is rendered (the files present before the call and the
\* one just written), each once, in increasing order, and its last element is
\* today.
C29_AvailableDates ==
    [][(IsSnapshotWritten /\ genWrite' = "ok") =>
          LET today == Day(now)
              L == pages'[today]
              present == DOMAIN snapshots \cup {today}
          IN /\ {L[i] : i \in 1..Len(L)}
                   = {d \in present : d >= today - (WindowDays - 1) /\ d <= today}
             /\ \A i, j \in 1..Len(L) : i < j => L[i] < L[j]
             /\ L # <<>>
             /\ L[Len(L)] = today]_vars

\* The page of today lists the snapshot of six days ago and today's, and a
\* snapshot of seven days ago is on disk and not listed.
C29_Witness ==
    /\ genWrite = "ok"
    /\ Day(now) \in DOMAIN pages
    /\ pages[Day(now)] = <<Day(now) - (WindowDays - 1), Day(now)>>
    /\ (Day(now) - WindowDays) \in DOMAIN snapshots

\* C30 (ledger load fails soft): a fetcher constructed while the ledger file
\* cannot be parsed exists and has an empty ledger, and a source visited with
\* an empty ledger emits every entry of its feed that has a link and is recent
\* enough: none is taken for seen.
C30_LoadFailsSoft ==
    [][/\ (pc' = "idle" /\ ~disk.ok) => seen' = EmptyLedger
       /\ (IsFetchSourceStep /\ seen = EmptyLedger /\ SourceOrder[idx] \notin broken) =>
              \A i \in 1..Len(feeds[SourceOrder[idx]]) :
                 LET e == feeds[SourceOrder[idx]][i]
                 IN  (e.link # NoLink /\ ~TooOld(PubDate(e, now), now))
                        => \E a \in NewArticles : a.url = e.link]_vars

\* After a run that emitted articles and whose save left a truncated file, a
\* new fetcher has been constructed: its ledger is empty.
C30_Witness ==
    /\ pc = "idle"
    /\ ~disk.ok
    /\ seen = EmptyLedger
    /\ everEmitted # {}
    /\ ticks = 0

-----------------------------------------------------------------------------
(* Properties of the pipeline as a whole *)

\* The links of the articles held by the snapshot files that can be read.
SnapshotUrls ==
    UNION {Urls(snapshots[d].articles) : d \in {x \in DOMAIN snapshots : snapshots[x].ok}}

\* C31 (no emitted article is lost), as claimed: when a run is over, every
\* article its fetch_all returned is in a snapshot, or its link is absent from
\* the ledger file, so that a later run can emit it again.  A link that is in
\* the ledger file is skipped by every later fetch_source until it is purged.
C31_NoArticleLost ==
    (job = "idle" /\ jobResult # "none") =>
        \A u \in Urls(returned) : u \in SnapshotUrls \/ u \notin DOMAIN LoadSeen(disk)

\* C32 (ledger growth): a visit of a source leaves every entry of the ledger
\* as it was, timestamp included, and the links it adds are exactly the links
\* of the articles it emits; a visit that emits nothing leaves the ledger
\* unchanged.
C32_LedgerGrowsByEmitted ==
    [][IsFetchSourceStep =>
          /\ DOMAIN seen' = DOMAIN seen \cup {a.url : a \in NewArticles}
          /\ \A u \in DOMAIN seen : seen'[u] = seen[u]
          /\ \A a \in NewArticles : a.url \notin DOMAIN seen /\ seen'[a.url] = now
          /\ NewArticles = {} => seen' = seen]_vars

\* In a later fetch_all a source has been visited whose feed holds a link
\* recorded earlier, a link-less entry or an entry that is too old: the ledger
\* holds the link with its first timestamp, older than the clock.
C32_Witness ==
    /\ pc = "fetching"
    /\ idx > 1
    /\ ticks > 0
    /\ \E i \in 1..Len(feeds[SourceOrder[idx - 1]]) :
          LET e == feeds[SourceOrder[idx - 1]][i]
          IN  /\ e.link \in DOMAIN seen
              /\ seen[e.link] < now
              /\ e.link \notin Urls(articles)
    /\ \E i \in 1..Len(feeds[SourceOrder[idx - 1]]) :
          feeds[SourceOrder[idx - 1]][i].link = NoLink
    /\ SourceOrder[idx - 1] \notin broken

\* The fields of an article as fetch_source builds it.
ArticleFields == {"url", "title", "source", "published", "content"}

\* C33 (inputs untouched): from the entry of process_articles to its return no
\* step changes the list it was given or any record of it, nor the admitted
\* prefix the loop walks; what the loop writes goes to the record under
\* construction and to the output list.
C33_InputsUntouched ==
    [][(ppc # "idle" \/ ppc' # "idle") =>
          /\ batch' = batch
          /\ ppc # "idle" => todo' = todo
          /\ \A i \in 1..Len(batch') : DOMAIN batch'[i] = ArticleFields]_vars

\* process_articles has returned for two articles: one raised and got the
\* failure record, the other was featured and got its deep-dive fields; the
\* two input records have their five fields only.
C33_Witness ==
    /\ ppc = "done"
    /\ Len(batch) = 2
    /\ Len(processed) = 2
    /\ \E i \in 1..2 : Raises(batch[i]) /\ processed[i].summary = FallbackSummary
    /\ \E j \in 1..2 : processed[j].is_featured /\ "core_content" \in DOMAIN processed[j]
    /\ \A i \in 1..2 : DOMAIN batch[i] = ArticleFields /\ processed[i] # batch[i]

\* C34 (same-day re-run): a run whose fetch_all returned nothing still calls
\* generate, and when the snapshot write succeeds the file of the day holds
\* the day, an empty article list and featured_count 0, whatever it held
\* before.
C34_EmptyRerunOverwrites ==
    [][(IsRunEnd /\ job = "process" /\ returned = <<>>) =>
          /\ genArts' = <<>>
          /\ genWrite' \in {"ok", "html"} =>
                /\ Day(now) \in DOMAIN snapshots'
                /\ snapshots'[Day(now)].ok
                /\ snapshots'[Day(now)].date = Day(now)
                /\ snapshots'[Day(now)].articles = <<>>
                /\ snapshots'[Day(now)].featured_count = 0]_vars

\* The second run of the day found every link of the feeds in the ledger and
\* replaced the first run's snapshot, which held an article, by an empty one.
C34_Witness ==
    /\ job = "idle"
    /\ runs = 2
    /\ returned = <<>>
    /\ \E s \in Sources : feeds[s] # <<>>
    /\ \A s \in Sources : \A i \in 1..Len(feeds[s]) : feeds[s][i].link \in DOMAIN seen
    /\ genWrite \in {"ok", "html"}
    /\ genPrev # <<>>
    /\ genPrev[1].ok
    /\ genPrev[1].date = Day(now)
    /\ genPrev[1].articles # <<>>
    /\ snapshots[Day(now)].ok
    /\ snapshots[Day(now)].articles = <<>>
    /\ snapshots[Day(now)].featured_count = 0

=============================================================================
